---------------------------- MODULE Spec2Model ----------------------------
(***************************************************************************)
(* A model of iterwrite.Iterwriter (src/iterwrite/iterwriter.py).          *)
(*                                                                         *)
(* A Python str is a sequence of one-character strings, so that parsing    *)
(* and formatting are computed character by character.  A number passed    *)
(* to format is a record [type, tenths]: an int n is [type |-> "int",      *)
(* tenths |-> 10 * n], a float x with one decimal digit is                 *)
(* [type |-> "float", tenths |-> 10 * x].                                  *)
(***************************************************************************)
EXTENDS Integers, Sequences, FiniteSets, TLC

VARIABLES
    writer,   \* the Iterwriter object: sep, names, messages, bases, pad_lengths, decimals
    last,     \* the last call made, its arguments, its outcome and the object before it
    shown     \* per name: length of the value last rendered by a successful format
              \* since the name's registration (0 when there is none)

vars == <<writer, last, shown>>

-----------------------------------------------------------------------------
(* Python values *)

\* Python's None where an Optional[int] is expected (pad_length, decimal).
None == -1

\* The base argument of compose_pattern when it is None or "".
NoBase == ""

Digit == {"0", "1", "2", "3", "4", "5", "6", "7", "8", "9"}

DigitChar(d) == <<"0", "1", "2", "3", "4", "5", "6", "7", "8", "9">>[d + 1]

DigitValue(c) ==
    CASE c = "0" -> 0 [] c = "1" -> 1 [] c = "2" -> 2 [] c = "3" -> 3
      [] c = "4" -> 4 [] c = "5" -> 5 [] c = "6" -> 6 [] c = "7" -> 7
      [] c = "8" -> 8 [] c = "9" -> 9

RECURSIVE str_nat(_)
str_nat(n) ==
    IF n < 10 THEN <<DigitChar(n)>>
    ELSE str_nat(n \div 10) \o <<DigitChar(n % 10)>>

\* str(n) of an int, as "{}".format(n) writes it.
str(n) == IF n < 0 THEN <<"-">> \o str_nat(-n) ELSE str_nat(n)

\* int(s) of a non-empty run of digits.
RECURSIVE int(_)
int(s) ==
    IF s = <<>> THEN 0
    ELSE 10 * int(SubSeq(s, 1, Len(s) - 1)) + DigitValue(s[Len(s)])

RECURSIVE Repeat(_, _)
Repeat(c, n) == IF n <= 0 THEN <<>> ELSE <<c>> \o Repeat(c, n - 1)

\* sep.join(parts)
RECURSIVE join(_, _)
join(s, parts) ==
    IF parts = <<>> THEN <<>>
    ELSE IF Len(parts) = 1 THEN parts[1]
    ELSE parts[1] \o s \o join(s, Tail(parts))

-----------------------------------------------------------------------------
(* Regular expressions *)

\* Index of the first brace of s at or after j, 0 when there is none.
RECURSIVE NextBrace(_, _)
NextBrace(s, j) ==
    IF j > Len(s) THEN 0
    ELSE IF s[j] \in {"{", "}"} THEN j
    ELSE NextBrace(s, j + 1)

\* PATTERN_REGEX = \{([^{}]*)\} matched at position i of s: the index of the
\* closing brace, 0 when there is no match at i.
PATTERN_REGEX(s, i) ==
    IF i <= Len(s) /\ s[i] = "{"
    THEN LET j == NextBrace(s, i + 1)
         IN  IF j # 0 /\ s[j] = "}" THEN j ELSE 0
    ELSE 0

\* re.findall(PATTERN_REGEX, s) from position i on: the groups of the
\* leftmost non-overlapping matches.
RECURSIVE findall_pattern(_, _)
findall_pattern(s, i) ==
    IF i > Len(s) THEN <<>>
    ELSE LET j == PATTERN_REGEX(s, i)
         IN  IF j # 0
             THEN <<SubSeq(s, i + 1, j - 1)>> \o findall_pattern(s, j + 1)
             ELSE findall_pattern(s, i + 1)

\* re.sub(PATTERN_REGEX, "{}", s) from position i on.
RECURSIVE sub_pattern(_, _)
sub_pattern(s, i) ==
    IF i > Len(s) THEN <<>>
    ELSE LET j == PATTERN_REGEX(s, i)
         IN  IF j # 0
             THEN <<"{", "}">> \o sub_pattern(s, j + 1)
             ELSE <<s[i]>> \o sub_pattern(s, i + 1)

\* Last index of the run of digits of s that starts at j.
RECURSIVE DigitRunEnd(_, _)
DigitRunEnd(s, j) ==
    IF j + 1 <= Len(s) /\ s[j + 1] \in Digit THEN DigitRunEnd(s, j + 1) ELSE j

\* re.findall(c + "([0-9]+)", s) from position i on, for c = ":" and c = ".".
RECURSIVE findall_number(_, _, _)
findall_number(c, s, i) ==
    IF i >= Len(s) THEN <<>>
    ELSE IF s[i] = c /\ s[i + 1] \in Digit
         THEN LET e == DigitRunEnd(s, i + 1)
              IN  <<SubSeq(s, i + 1, e)>> \o findall_number(c, s, e + 1)
         ELSE findall_number(c, s, i + 1)

-----------------------------------------------------------------------------
(* str.format of a composed pattern, as lines 189 and 199 use it *)

\* Last index of the run of digits of s that starts at i; i - 1 when s has
\* no digit at i.
DigitsEnd(s, i) ==
    IF i <= Len(s) /\ s[i] \in Digit THEN DigitRunEnd(s, i) ELSE i - 1

\* The parts of a format spec whose width is spec[w1..wEnd] and whose
\* precision is spec[wEnd + 2..pEnd] (each absent when empty).
SpecParts(spec, w1, wEnd, pEnd) ==
    [zero      |-> w1 = 2,
     width     |-> IF wEnd >= w1 THEN int(SubSeq(spec, w1, wEnd)) ELSE 0,
     precision |-> IF pEnd > wEnd THEN int(SubSeq(spec, wEnd + 2, pEnd)) ELSE None,
     type      |-> SubSeq(spec, pEnd + 1, Len(spec))]

SpecPrecision(spec, w1, wEnd) ==
    SpecParts(spec, w1, wEnd,
              IF wEnd + 2 <= Len(spec) /\ spec[wEnd + 1] = "." /\ spec[wEnd + 2] \in Digit
              THEN DigitRunEnd(spec, wEnd + 2) ELSE wEnd)

SpecWidth(spec, w1) == SpecPrecision(spec, w1, DigitsEnd(spec, w1))

\* The format spec between "{:" and "}" of a composed pattern, read by the
\* format-spec grammar [0][width][.precision][type].  A leading "0" is the
\* zero-fill flag, so the spec "0d" has no width.
ParseSpec(spec) ==
    SpecWidth(spec, IF Len(spec) >= 1 /\ spec[1] = "0" THEN 2 ELSE 1)

Abs(n) == IF n < 0 THEN -n ELSE n

\* The digits of |value| in fixed-point notation with prec decimals.  A value
\* has one decimal digit, so only prec = 0 rounds: to nearest, ties (x.5 is
\* exact in binary) to even.
FixedDigits(value, prec) ==
    LET a == Abs(value.tenths)
        q == a \div 10
        r == a % 10
    IN  IF prec = 0
        THEN str_nat(IF r > 5 \/ (r = 5 /\ q % 2 = 1) THEN q + 1 ELSE q)
        ELSE str_nat(q) \o <<".", DigitChar(r)>> \o Repeat("0", prec - 1)

\* Whether format(value, spec) raises ValueError: the presentation type d
\* accepts an int only, f accepts an int or a float.
Formattable(base, value) ==
    \/ base = "f"
    \/ base = "d" /\ value.type = "int"

\* The sign and the digits right-aligned in the width: padded with spaces,
\* or with zeros after the sign under the zero-fill flag.
Align(spec, sign, digits) ==
    IF spec.zero
    THEN sign \o Repeat("0", spec.width - Len(sign) - Len(digits)) \o digits
    ELSE Repeat(" ", spec.width - Len(sign) - Len(digits)) \o sign \o digits

\* format(value, spec) for the presentation types d and f; six decimals when
\* f is given no precision.
Render(spec, value) ==
    Align(spec,
          IF value.tenths < 0 THEN <<"-">> ELSE <<>>,
          IF spec.type = <<"d">>
          THEN str_nat(Abs(value.tenths) \div 10)
          ELSE FixedDigits(value, IF spec.precision = None THEN 6
                                  ELSE spec.precision))

\* pattern.format(value) for a pattern written by compose_pattern.
str_format(pattern, value) ==
    Render(ParseSpec(SubSeq(pattern, 3, Len(pattern) - 1)), value)

\* template.format(text) for a stored message, whose only braces are the "{}"
\* that add_message put in place of the pattern.
RECURSIVE template_format(_, _)
template_format(template, text) ==
    IF template = <<>> THEN <<>>
    ELSE IF Len(template) >= 2 /\ template[1] = "{" /\ template[2] = "}"
         THEN text \o template_format(SubSeq(template, 3, Len(template)), text)
         ELSE <<template[1]>> \o template_format(Tail(template), text)

-----------------------------------------------------------------------------
(* The static methods *)

\* re.findall(".([0-9]+)", s) from position i on: the dot left unescaped
\* matches any character.
RECURSIVE findall_after_any(_, _)
findall_after_any(s, i) ==
    IF i >= Len(s) THEN <<>>
    ELSE IF s[i + 1] \in Digit
         THEN LET e == DigitRunEnd(s, i + 1)
              IN  <<SubSeq(s, i + 1, e)>> \o findall_after_any(s, e + 1)
         ELSE findall_after_any(s, i + 1)

\* decompose_pattern with the dot of the decimal regex left unescaped.
decompose_pattern_unescaped(pattern) ==
    IF pattern = <<>>
    THEN [raises |-> "IndexError", base |-> NoBase,
          pad_length |-> None, decimal |-> None]
    ELSE LET pad_length_all == findall_number(":", pattern, 1)
             decimal_all    == findall_after_any(pattern, 1)
         IN  [raises     |-> "ok",
              base       |-> pattern[Len(pattern)],
              pad_length |-> IF Len(pad_length_all) > 0
                             THEN int(pad_length_all[1]) ELSE None,
              decimal    |-> IF Len(decimal_all) > 0
                             THEN int(decimal_all[1]) ELSE None]

\* Iterwriter.decompose_pattern.  pattern[-1] raises IndexError on the empty
\* pattern.
decompose_pattern(pattern) ==
    IF pattern = <<>>
    THEN [raises |-> "IndexError", base |-> NoBase,
          pad_length |-> None, decimal |-> None]
    ELSE LET pad_length_all == findall_number(":", pattern, 1)
             decimal_all    == findall_number(".", pattern, 1)
         IN  [raises     |-> "ok",
              base       |-> pattern[Len(pattern)],
              pad_length |-> IF Len(pad_length_all) > 0
                             THEN int(pad_length_all[1]) ELSE None,
              decimal    |-> IF Len(decimal_all) > 0
                             THEN int(decimal_all[1]) ELSE None]

\* compose_pattern that leaves the pad length out.
compose_pattern_unpadded(base, pad_length, decimal) ==
    LET b == IF base = NoBase THEN <<>> ELSE <<base>>
    IN  IF decimal = None
        THEN <<"{", ":">> \o b \o <<"}">>
        ELSE <<"{", ":", ".">> \o str(decimal) \o b \o <<"}">>

\* Iterwriter.compose_pattern.
compose_pattern(base, pad_length, decimal) ==
    LET b == IF base = NoBase THEN <<>> ELSE <<base>>
        p == IF pad_length = None THEN <<>> ELSE str(pad_length)
    IN  IF decimal = None
        THEN <<"{", ":">> \o p \o b \o <<"}">>
        ELSE <<"{", ":">> \o p \o <<".">> \o str(decimal) \o b \o <<"}">>

\* Objects that are not a str, as test_message_validation passes them.
NonStrings == {<<"int 25">>}

isinstance_str(message) == message \notin NonStrings

\* Iterwriter.validate_message: "ok" when it returns True, else the error it
\* raises.
validate_message(message) ==
    IF ~isinstance_str(message) THEN "NotString"
    ELSE LET patterns == findall_pattern(message, 1)
         IN  IF Len(patterns) < 1 THEN "NoPattern"
             ELSE IF Len(patterns) > 1 THEN "MultiplePatterns"
             ELSE LET d == decompose_pattern(patterns[1])
                  IN  IF d.raises # "ok" THEN d.raises
                      ELSE IF d.base \notin {"d", "f"} THEN "UnsupportedType"
                      ELSE IF d.decimal # None /\ d.base # "f"
                           THEN "PrecisionOnNonFloat"
                      ELSE "ok"

-----------------------------------------------------------------------------
(* The Iterwriter object and its methods.  A method is an operator from the *)
(* object (self) and the arguments to the object after the call and the     *)
(* call's outcome: raises is "ok" or the error raised.                      *)

Range(f) == {f[i] : i \in DOMAIN f}

\* d[k] = v on a dict.
Put(d, k, v) == [x \in DOMAIN d \cup {k} |-> IF x = k THEN v ELSE d[x]]

EmptyDict == [x \in {} |-> 0]

Max(a, b) == IF a >= b THEN a ELSE b

\* add_message with the name appended before the message is validated.
add_message_append_first(self, name, message) ==
    LET appended == [self EXCEPT !.names =
                        IF name \in Range(@) THEN @ ELSE Append(@, name)]
        valid    == validate_message(message)
    IN  IF valid # "ok" THEN [self |-> appended, raises |-> valid]
        ELSE LET patterns == findall_pattern(message, 1)
                 d        == decompose_pattern(patterns[1])
             IN  [self |-> [appended EXCEPT
                      !.messages    = Put(@, name, sub_pattern(message, 1)),
                      !.bases       = Put(@, name, d.base),
                      !.pad_lengths = Put(@, name, IF d.pad_length = None
                                                   THEN 0 ELSE d.pad_length),
                      !.decimals    = Put(@, name, d.decimal)],
                  raises |-> "ok"]

\* Iterwriter.add_message.
add_message(self, name, message) ==
    LET valid == validate_message(message)
    IN  IF valid # "ok" THEN [self |-> self, raises |-> valid]
        ELSE LET patterns == findall_pattern(message, 1)
                 d        == decompose_pattern(patterns[1])
             IN  [self |-> [self EXCEPT
                      !.names       = IF name \in Range(@) THEN @
                                      ELSE Append(@, name),
                      !.messages    = Put(@, name, sub_pattern(message, 1)),
                      !.bases       = Put(@, name, d.base),
                      !.pad_lengths = Put(@, name, IF d.pad_length = None
                                                   THEN 0 ELSE d.pad_length),
                      !.decimals    = Put(@, name, d.decimal)],
                  raises |-> "ok"]

\* Iterwriter.__init__ without unnamed arguments: kwargs is the sequence of
\* the [name, message] pairs given.
RECURSIVE init_loop(_, _, _)
init_loop(self, kwargs, i) ==
    IF i > Len(kwargs) THEN [self |-> self, raises |-> "ok"]
    ELSE LET r == add_message(self, kwargs[i].name, kwargs[i].message)
         IN  IF r.raises # "ok" THEN r ELSE init_loop(r.self, kwargs, i + 1)

Iterwriter(sep, kwargs) ==
    init_loop([sep         |-> sep,
               names       |-> [i \in 1..Len(kwargs) |-> kwargs[i].name],
               messages    |-> EmptyDict,
               bases       |-> EmptyDict,
               pad_lengths |-> EmptyDict,
               decimals    |-> EmptyDict], kwargs, 1)

\* One iteration of format's loop with the stored width set to the length of
\* this value alone: the width seen so far is forgotten.
format_element_latest(self, name, value) ==
    LET natural == str_format(compose_pattern(self.bases[name], 0,
                                              self.decimals[name]), value)
    IN  [self |-> [self EXCEPT !.pad_lengths[name] = Len(natural)],
         text |-> natural]

\* One iteration of format's loop that never stores the longer width.
format_element_unstored(self, name, value) ==
    [self |-> self,
     text |-> str_format(compose_pattern(self.bases[name], self.pad_lengths[name],
                                         self.decimals[name]), value)]

\* One iteration of format's loop that leaves room for one more character
\* when it widens.
format_element_wider(self, name, value) ==
    LET pattern      == compose_pattern(self.bases[name], self.pad_lengths[name],
                                        self.decimals[name])
        composed_len == Len(str_format(pattern, value))
        pad_length   == IF composed_len > self.pad_lengths[name]
                        THEN composed_len + 1 ELSE self.pad_lengths[name]
    IN  [self |-> [self EXCEPT !.pad_lengths[name] = pad_length],
         text |-> str_format(compose_pattern(self.bases[name], pad_length,
                                             self.decimals[name]), value)]

\* The end of one iteration: composed_elements[name] written with pattern.
format_element_text(self, pattern, value) ==
    [self |-> self, text |-> str_format(pattern, value)]

\* The stored length updated if required, and the pattern recomposed.
format_element_update(self, name, value, pattern, composed_len) ==
    IF composed_len > self.pad_lengths[name]
    THEN format_element_text(
             [self EXCEPT !.pad_lengths[name] = Max(@, composed_len)],
             compose_pattern(self.bases[name],
                             Max(self.pad_lengths[name], composed_len),
                             self.decimals[name]),
             value)
    ELSE format_element_text(self, pattern, value)

format_element_pattern(self, name, value, pattern) ==
    format_element_update(self, name, value, pattern,
                          Len(str_format(pattern, value)))

\* One iteration of format's loop for a registered name: the object after
\* it and composed_elements[name].
format_element(self, name, value) ==
    format_element_pattern(self, name, value,
        compose_pattern(self.bases[name], self.pad_lengths[name],
                        self.decimals[name]))

\* format's loop over kwargs.items(), a sequence of [name, value] pairs, from
\* item i on.  self.bases[name] raises KeyError for a name never added.
RECURSIVE format_loop(_, _, _, _)
format_loop(self, kwargs, i, composed_elements) ==
    IF i > Len(kwargs)
    THEN [self |-> self, composed_elements |-> composed_elements, raises |-> "ok"]
    ELSE IF kwargs[i].name \notin DOMAIN self.bases
    THEN [self |-> self, composed_elements |-> composed_elements,
          raises |-> "KeyError"]
    ELSE LET e == format_element(self, kwargs[i].name, kwargs[i].value)
         IN  format_loop(e.self, kwargs, i + 1,
                         Put(composed_elements, kwargs[i].name, e.text))

\* any(name not in composed_elements for name in self.names)
any_missing(self, composed_elements) ==
    \E i \in DOMAIN self.names : self.names[i] \notin DOMAIN composed_elements

\* The set difference taken the other way round.
missing_names_reversed(self, composed_elements) ==
    DOMAIN composed_elements \ Range(self.names)

\* set(self.names) - set(composed_elements.keys())
missing_names(self, composed_elements) ==
    Range(self.names) \ DOMAIN composed_elements

\* The returned string built in the order of the values given.
join_messages_as_given(self, kwargs, composed_elements) ==
    join(self.sep, [i \in 1..Len(kwargs) |->
            template_format(self.messages[kwargs[i].name],
                            composed_elements[kwargs[i].name])])

\* The returned string: the messages with their values, in the order of
\* self.names.
join_messages(self, kwargs, composed_elements) ==
    join(self.sep, [i \in 1..Len(self.names) |->
            template_format(self.messages[self.names[i]],
                            composed_elements[self.names[i]])])

\* format after its loop: l is the loop's outcome.
format_return(kwargs, l) ==
    IF l.raises # "ok"
    THEN [self |-> l.self, raises |-> l.raises, out |-> <<>>, missing |-> {},
          composed_elements |-> l.composed_elements]
    ELSE IF any_missing(l.self, l.composed_elements)
    THEN [self |-> l.self, raises |-> "MissingFields", out |-> <<>>,
          missing |-> missing_names(l.self, l.composed_elements),
          composed_elements |-> l.composed_elements]
    ELSE [self |-> l.self, raises |-> "ok",
          out |-> join_messages(l.self, kwargs, l.composed_elements),
          missing |-> {}, composed_elements |-> l.composed_elements]

\* Iterwriter.format.
format(self, kwargs) == format_return(kwargs, format_loop(self, kwargs, 1, EmptyDict))

-----------------------------------------------------------------------------
(* Inputs *)

\* The most digits of a number given to format.
MaxDigits == 7

\* The default separator; "U+2016" stands for the double vertical line.
DefaultSep == <<" ", "U+2016", " ">>

\* The field names in use.  A name is unknown to the object until
\* add_message has stored it.
Names == {"count", "delta"}

\* Well-formed messages: an int with a width, and a float with decimals and
\* no colon, as in test_add.
CountMsg == <<"n", ":", "{", ":", "4", "d", "}">>
BestMsg  == <<"(", "{", "6", ".", "2", "f", "}", ")">>

GoodMessages == {CountMsg, BestMsg}

\* Messages validate_message rejects, one for each way of failing.
BadMessages ==
    { <<"int 25">>,
      <<"n", "o">>,
      <<"{", ":", "d", "}", "{", ":", "f", "}">>,
      <<"{", ":", "s", "}">>,
      <<"{", ":", "5", ".", "5", "d", "}">>,
      <<"{", "}">> }

Messages == GoodMessages \cup BadMessages

IntValue(n) == [type |-> "int", tenths |-> 10 * n]

FloatValue(tenths) == [type |-> "float", tenths |-> tenths]

RECURSIVE Pow10(_)
Pow10(n) == IF n = 0 THEN 1 ELSE 10 * Pow10(n - 1)

\* 5, the longest int, and -12.5.
Values == {IntValue(5), IntValue(Pow10(MaxDigits) - 1), FloatValue(-125)}

\* The sequences of n distinct elements of S.
RECURSIVE Orderings(_, _)
Orderings(S, n) ==
    IF n = 0 THEN {<<>>}
    ELSE {Append(p[1], p[2]) :
             p \in {q \in Orderings(S, n - 1) \X S : q[2] \notin Range(q[1])}}

\* The keyword arguments of one format call: [name, value] pairs in the
\* order given, no name twice.
Kwargs ==
    UNION {UNION {{[i \in 1..n |-> [name |-> o[i], value |-> v[i]]] :
                      v \in [1..n -> Values]} : o \in Orderings(Names, n)} :
           n \in 0..Cardinality(Names)}

\* The values are numbers of the fields' types: format(value, "d") raises
\* ValueError for a float, and no such call is made.
WellTyped(self, kwargs) ==
    \A i \in DOMAIN kwargs :
        kwargs[i].name \in DOMAIN self.bases =>
            Formattable(self.bases[kwargs[i].name], kwargs[i].value)

\* The constructor calls a run starts from.
Constructions ==
    { [sep |-> DefaultSep, kwargs |-> <<>>],
      [sep |-> DefaultSep,
       kwargs |-> <<[name |-> "count", message |-> CountMsg],
                    [name |-> "delta", message |-> BestMsg]>>] }

-----------------------------------------------------------------------------
(* The state machine *)

NoCall ==
    [op |-> "__init__", name |-> "", message |-> <<>>, kwargs |-> <<>>,
     raises |-> "ok", out |-> <<>>, missing |-> {}, composed_elements |-> EmptyDict,
     pre |-> <<>>, seen |-> <<>>, args |-> <<>>, result |-> <<>>]

Init ==
    \E c \in Constructions :
        /\ Iterwriter(c.sep, c.kwargs).raises = "ok"
        /\ writer = Iterwriter(c.sep, c.kwargs).self
        /\ last = NoCall
        /\ shown = [n \in Names |-> 0]

AddMessage ==
    \E name \in Names, message \in Messages :
        \E r \in {add_message(writer, name, message)} :
            /\ writer' = r.self
            /\ last' = [NoCall EXCEPT !.op = "add_message", !.name = name,
                                      !.message = message, !.raises = r.raises,
                                      !.pre = writer, !.seen = shown]
            /\ shown' = IF r.raises = "ok" THEN [shown EXCEPT ![name] = 0]
                        ELSE shown

Format ==
    \E kwargs \in Kwargs :
        /\ WellTyped(writer, kwargs)
        /\ \E r \in {format(writer, kwargs)} :
               /\ writer' = r.self
               /\ last' = [NoCall EXCEPT !.op = "format", !.kwargs = kwargs,
                                         !.raises = r.raises, !.out = r.out,
                                         !.missing = r.missing,
                                         !.composed_elements = r.composed_elements,
                                         !.pre = writer, !.seen = shown]
               /\ shown' = IF r.raises = "ok"
                           THEN [n \in Names |->
                                    IF n \in DOMAIN r.composed_elements
                                    THEN Len(r.composed_elements[n])
                                    ELSE shown[n]]
                           ELSE shown

Next == AddMessage \/ Format

Spec == Init /\ [][Next]_vars

-----------------------------------------------------------------------------
(* The static methods on their own: every call is applied to an input drawn *)
(* from a bounded set, and last records the input and what came back.       *)

\* The longest pad length and the most decimals composed.
MaxPadLength == 11

MaxDecimal == 3

\* The longest text between the braces of a message given to
\* validate_message.
MaxPatternLen == 3

PatternChars == {":", ".", "5", "d", "f", "s"}

RECURSIVE Strings(_, _)
Strings(S, n) ==
    IF n = 0 THEN {<<>>}
    ELSE LET shorter == Strings(S, n - 1)
         IN  shorter \cup {Append(t, c) : t \in shorter, c \in S}

\* The messages validate_message is given: every pattern of at most
\* MaxPatternLen characters at one substitution site after some text, and
\* the messages of the object's runs.
ValidateInputs ==
    Messages \cup
    {<<"x", "{">> \o t \o <<"}">> : t \in Strings(PatternChars, MaxPatternLen)}

\* The triples compose_pattern is given: decimals for a float only.
Triples ==
    {t \in [base : {"d", "f"},
            pad_length : {None} \cup 0..MaxPadLength,
            decimal : {None} \cup 0..MaxDecimal] :
        t.decimal # None => t.base = "f"}

InitStatic ==
    /\ writer = Iterwriter(DefaultSep, <<>>).self
    /\ last = NoCall
    /\ shown = [n \in Names |-> 0]

ValidateMessage ==
    \E message \in ValidateInputs :
        /\ last' = [NoCall EXCEPT !.op = "validate_message", !.message = message,
                                  !.raises = validate_message(message)]
        /\ UNCHANGED <<writer, shown>>

ComposePattern ==
    \E t \in Triples :
        LET composed == compose_pattern(t.base, t.pad_length, t.decimal)
        IN  /\ last' = [NoCall EXCEPT
                   !.op = "compose_pattern", !.args = t,
                   !.result = [composed |-> composed,
                               decomposed |-> decompose_pattern(composed),
                               inside |-> decompose_pattern(
                                              findall_pattern(composed, 1)[1])]]
            /\ UNCHANGED <<writer, shown>>

NextStatic == ValidateMessage \/ ComposePattern

SpecStatic == InitStatic /\ [][NextStatic]_vars

-----------------------------------------------------------------------------
(* Vocabulary of the properties *)

Registered(self) == Range(self.names)

Supplied(kwargs) == {kwargs[i].name : i \in DOMAIN kwargs}

ValueOf(kwargs, n) ==
    kwargs[CHOOSE i \in DOMAIN kwargs : kwargs[i].name = n].value

\* The value written for field n with no minimum width.
Natural(self, n, value) ==
    str_format(compose_pattern(self.bases[n], None, self.decimals[n]), value)

RightJustified(text, width) == Repeat(" ", width - Len(text)) \o text

\* The width the pattern of a valid message declares, 0 when it declares none.
DeclaredWidth(message) ==
    Max(0, decompose_pattern(findall_pattern(message, 1)[1]).pad_length)

FormatCalled == last.op = "format"

FormatReturned == last.op = "format" /\ last.raises = "ok"

AddCalled == last.op = "add_message"

-----------------------------------------------------------------------------
(* C1 *)

\* C1 as stated: no add_message or format call lowers the stored minimum
\* width (pad_lengths[name]) of a registered name.
C1_WidthNeverLowered ==
    (AddCalled \/ FormatCalled) =>
        \A n \in Registered(last.pre) :
            writer.pad_lengths[n] >= last.pre.pad_lengths[n]

\* C1 as amended: format never lowers a stored width; add_message leaves the
\* stored width of every other name as it was, and sets the width of the
\* name it stores to the width its message declares (0 when it declares
\* none), whatever the width stored before.
C1_WidthLoweredOnlyByReAdding ==
    /\ FormatCalled =>
           \A n \in Registered(last.pre) :
               writer.pad_lengths[n] >= last.pre.pad_lengths[n]
    /\ AddCalled =>
           \A n \in Registered(last.pre) \ {last.name} :
               writer.pad_lengths[n] = last.pre.pad_lengths[n]
    /\ (AddCalled /\ last.raises = "ok") =>
           writer.pad_lengths[last.name] = DeclaredWidth(last.message)
    /\ (AddCalled /\ last.raises # "ok") =>
           writer.pad_lengths = last.pre.pad_lengths

\* A name widened by format is added again, and its stored width drops.
C1_ReAddedNarrower ==
    /\ AddCalled /\ last.raises = "ok"
    /\ last.name \in Registered(last.pre)
    /\ writer.pad_lengths[last.name] < last.pre.pad_lengths[last.name]
    /\ Cardinality(Registered(writer)) = 2

-----------------------------------------------------------------------------
(* C2 *)

\* C2: in a sequence of successful format calls on a field, the value is
\* never rendered shorter than it was rendered by the call before.
C2_RenderedWidthNonDecreasing ==
    FormatReturned =>
        \A n \in Supplied(last.kwargs) :
            Len(last.composed_elements[n]) >= last.seen[n]

\* A one-character value is rendered after a value of MaxDigits digits had
\* widened the field.
C2_ShortAfterLong ==
    /\ FormatReturned
    /\ \E n \in Supplied(last.kwargs) :
           /\ last.seen[n] >= MaxDigits
           /\ Len(Natural(writer, n, ValueOf(last.kwargs, n))) = 1
           /\ Len(last.composed_elements[n]) = last.seen[n]

-----------------------------------------------------------------------------
(* C3 *)

-----------------------------------------------------------------------------
(* C4 *)

\* The keyword arguments whose names are registered, in the order given.
KnownOnly(self, kwargs) ==
    SelectSeq(kwargs, LAMBDA kw : kw.name \in Registered(self))

\* C4: a format call given a value for every registered name and also names
\* never registered does not fail; what it returns and the widths it stores
\* are those of the call without the unregistered names.
C4_UnknownNamesIgnored ==
    (/\ FormatCalled
     /\ Registered(last.pre) \subseteq Supplied(last.kwargs)
     /\ Supplied(last.kwargs) # Registered(last.pre)) =>
        /\ last.raises = "ok"
        /\ last.out = format(last.pre, KnownOnly(last.pre, last.kwargs)).out
        /\ writer = format(last.pre, KnownOnly(last.pre, last.kwargs)).self

-----------------------------------------------------------------------------
(* C5 *)

\* The keyword arguments in every order.
Reorderings(kwargs) ==
    {[i \in DOMAIN kwargs |-> kwargs[o[i]]] :
        o \in Orderings(DOMAIN kwargs, Len(kwargs))}

\* C5: the string a successful format call returns is the messages with their
\* values, joined by the separator in the order the names were registered,
\* whatever the order the values are given in; a name added again keeps its
\* place.
C5_JoinedInRegistrationOrder ==
    /\ FormatReturned =>
           /\ last.out =
                  join(writer.sep,
                       [i \in 1..Len(writer.names) |->
                           template_format(
                               writer.messages[writer.names[i]],
                               RightJustified(
                                   Natural(writer, writer.names[i],
                                           ValueOf(last.kwargs, writer.names[i])),
                                   writer.pad_lengths[writer.names[i]]))])
           /\ \A k \in Reorderings(last.kwargs) :
                  format(last.pre, k).out = last.out
    /\ (AddCalled /\ last.name \in Registered(last.pre)) =>
           writer.names = last.pre.names

\* The values were given in the reverse of the registration order.
C5_GivenInReverse ==
    /\ FormatReturned
    /\ Len(writer.names) = 2
    /\ last.kwargs[1].name = writer.names[2]
    /\ last.kwargs[2].name = writer.names[1]

-----------------------------------------------------------------------------
(* C6 *)

ComposeCalled == last.op = "compose_pattern"

Decomposed(t) == [raises |-> "ok", base |-> t.base,
                  pad_length |-> t.pad_length, decimal |-> t.decimal]

\* C6 as stated: decompose_pattern(compose_pattern(base, pad_length, decimal))
\* is (base, pad_length, decimal) for every valid triple.
C6_RoundTrip ==
    ComposeCalled => last.result.decomposed = Decomposed(last.args)

\* C6 as amended: decompose_pattern of the text between the braces of
\* compose_pattern(base, pad_length, decimal) is (base, pad_length, decimal);
\* of the composed string itself, braces included, it is
\* ("}", pad_length, decimal).
C6_RoundTripInsideBraces ==
    ComposeCalled =>
        /\ last.result.inside = Decomposed(last.args)
        /\ last.result.decomposed = [Decomposed(last.args) EXCEPT !.base = "}"]

\* A float with a two-digit pad length and decimals went round.
C6_WideFloatComposed ==
    /\ ComposeCalled
    /\ last.args.base = "f"
    /\ last.args.pad_length >= 10
    /\ last.args.decimal = MaxDecimal

-----------------------------------------------------------------------------
(* C7 *)

\* The type tag of a pattern: its last character, absent for the empty
\* pattern.
TypeTag(pattern) == IF pattern = <<>> THEN "" ELSE pattern[Len(pattern)]

HasPrecision(pattern) == findall_number(".", pattern, 1) # <<>>

\* The outcome C7 gives a message.
Classified(message) ==
    IF message \in NonStrings THEN "NotString"
    ELSE IF Len(findall_pattern(message, 1)) = 0 THEN "NoPattern"
    ELSE IF Len(findall_pattern(message, 1)) > 1 THEN "MultiplePatterns"
    ELSE IF TypeTag(findall_pattern(message, 1)[1]) \notin {"d", "f"}
    THEN "UnsupportedType"
    ELSE IF /\ TypeTag(findall_pattern(message, 1)[1]) = "d"
            /\ HasPrecision(findall_pattern(message, 1)[1])
    THEN "PrecisionOnNonFloat"
    ELSE "ok"

\* C7: validate_message gives every message exactly its documented outcome;
\* a message with one substitution site whose type tag is not d or f fails
\* with UnsupportedType, whatever the pattern is.
C7_ValidateClassifies ==
    last.op = "validate_message" => last.raises = Classified(last.message)

-----------------------------------------------------------------------------
(* C8 *)

\* C8: an add_message call that fails leaves the object as it was.
C8_FailedAddChangesNothing ==
    (AddCalled /\ last.raises # "ok") => writer = last.pre

\* A name not yet registered was given a message that is rejected.
C8_NewNameRejected ==
    /\ AddCalled /\ last.raises # "ok"
    /\ last.name \notin Registered(last.pre)
    /\ last.pre.names # <<>>

-----------------------------------------------------------------------------
(* C9 *)

\* C9: a format call that fails with MissingFields changes only stored
\* widths of the names given, each left as it was or raised to the length of
\* the value given.
C9_MissingFieldsFrame ==
    (FormatCalled /\ last.raises = "MissingFields") =>
        /\ writer.names = last.pre.names
        /\ writer.messages = last.pre.messages
        /\ writer.bases = last.pre.bases
        /\ writer.decimals = last.pre.decimals
        /\ writer.sep = last.pre.sep
        /\ DOMAIN writer.pad_lengths = DOMAIN last.pre.pad_lengths
        /\ \A n \in Registered(last.pre) \ Supplied(last.kwargs) :
               writer.pad_lengths[n] = last.pre.pad_lengths[n]
        /\ \A n \in Supplied(last.kwargs) :
               \/ writer.pad_lengths[n] = last.pre.pad_lengths[n]
               \/ /\ writer.pad_lengths[n] > last.pre.pad_lengths[n]
                  /\ writer.pad_lengths[n] =
                         Len(Natural(last.pre, n, ValueOf(last.kwargs, n)))

\* The failed call widened the field it was given.
C9_WidenedThenFailed ==
    /\ FormatCalled /\ last.raises = "MissingFields"
    /\ \E n \in Supplied(last.kwargs) :
           writer.pad_lengths[n] > last.pre.pad_lengths[n]

-----------------------------------------------------------------------------
(* C10 *)

\* C10: after a successful format call every value is rendered exactly as
\* wide as the width then stored for its field, which is the larger of the
\* width stored before and the length of the value with no padding.
C10_RenderedAtStoredWidth ==
    FormatReturned =>
        \A n \in Supplied(last.kwargs) :
            /\ Len(last.composed_elements[n]) = writer.pad_lengths[n]
            /\ writer.pad_lengths[n] =
                   Max(last.pre.pad_lengths[n],
                       Len(Natural(last.pre, n, ValueOf(last.kwargs, n))))

\* The value that widens the field is rendered at the new width, and a value
\* given with it is padded to its own stored width.
C10_WidenedInTheSameCall ==
    /\ FormatReturned
    /\ \E n \in Supplied(last.kwargs) :
           /\ writer.pad_lengths[n] > last.pre.pad_lengths[n]
           /\ Len(last.composed_elements[n]) = writer.pad_lengths[n]
    /\ \E n \in Supplied(last.kwargs) :
           Len(Natural(last.pre, n, ValueOf(last.kwargs, n)))
               < writer.pad_lengths[n]

=============================================================================
